---- MODULE Spec2Model ----
(***************************************************************************)
(* Session-and-attendance consistency layer of the EMS API.                *)
(*                                                                         *)
(* The store is MongoDB: one set of rows per collection.  Every request    *)
(* handler of authentication/views_mongo.py is a process that performs its *)
(* store operations one at a time; there is one action per store operation *)
(* and the first action of a handler also accepts the request.  Under Spec *)
(* two handlers may interleave between any two store operations; under     *)
(* SpecSeq a request runs to its response before the next one is accepted  *)
(* and Tick steps fall between requests.                                   *)
(*                                                                         *)
(* Time: `now' is the UTC clock in seconds.  Every read of the clock       *)
(* returns a value strictly later than the previous read (the clock has    *)
(* microsecond resolution) and Tick lets time pass.                        *)
(*                                                                         *)
(* Fields that no branch of the core reads (username, role, location,      *)
(* latitude, longitude, time-of-day strings) are left out of the rows.     *)
(***************************************************************************)
EXTENDS Integers, FiniteSets, Sequences, TLC

\* ---- bounds of the model ----
MaxReq == 2
MaxTicks == 2
NumProcs == 2

\* ---- program constants ----
OTP_TTL == 600
IstOffset == 19800
SecondsPerDay == 86400

\* ---- input domains ----
Emails == {"a@x.com"}
Passwords == {"pw1", "pw2"}
SignupPasswords == {"pw1"}
NewPasswords == {"pw2"}
Codes == {"111111", "222222"}
Devices == {"web", "mobile"}
TickSteps == {1, 598}
Procs == 1..NumProcs
StartTime == SecondsPerDay - OTP_TTL

VARIABLES
  now,             \* UTC clock
  nticks,          \* number of Tick steps taken
  nreq,            \* number of requests accepted
  nextId,          \* next ObjectId
  users,           \* collection 'users'
  otps,            \* collection 'otps'
  login_sessions,  \* collection 'login_sessions'
  logout_sessions, \* collection 'logout_sessions'
  punched_in,      \* collection 'punched_in'  (the PunchPointers)
  punched_out,     \* collection 'punched_out'
  attendance,      \* collection 'attendance'
  tokens,          \* emails for which a JWT has been issued
  proc             \* the request handlers in flight

vars == <<now, nticks, nreq, nextId, users, otps, login_sessions,
          logout_sessions, punched_in, punched_out, attendance, tokens, proc>>

stores == <<users, otps, login_sessions, logout_sessions, punched_in,
            punched_out, attendance>>

\* ---- clock and hashing ----
get_ist_time(t) == t + IstOffset

make_password(pw) == <<"pbkdf2", pw>>

\* check_password accepting every password
check_password_any(pw, digest) == TRUE

check_password(pw, digest) == digest = make_password(pw)

DateOf(t) == t \div SecondsPerDay

\* ---- store queries ----
UsersByEmail(email) == {u \in users : u.email = email}

\* get_latest_unused without the sort: any unused OTP of the pair
LatestUnused_unsorted(email, purpose) ==
  {o \in otps : o.email = email /\ o.purpose = purpose /\ ~o.is_used}

\* get_latest_unused without the purpose in its filter
LatestUnused_any_purpose(email, purpose) ==
  LET C == {o \in otps : o.email = email /\ ~o.is_used}
  IN {o \in C : \A q \in C : q.created_at <= o.created_at}

\* MongoOTP.get_latest_unused: the candidates find_one may return
LatestUnused(email, purpose) ==
  LET C == {o \in otps : o.email = email /\ o.purpose = purpose /\ ~o.is_used}
  IN {o \in C : \A q \in C : q.created_at <= o.created_at}

\* is_valid with the boundary second still accepted
is_valid_inclusive(o, t) ==
  ~o.is_used /\ (get_ist_time(t) - o.created_at) <= OTP_TTL

\* MongoOTP.is_valid, evaluated on the fetched copy at clock value t
is_valid(o, t) == ~o.is_used /\ (get_ist_time(t) - o.created_at) < OTP_TTL

ActiveSessions(uid) == {s \in login_sessions : s.user_id = uid /\ s.is_active}

\* MongoLoginSession.get_active_session
get_active_session(uid) ==
  {s \in ActiveSessions(uid) :
     \A q \in ActiveSessions(uid) : q.login_time <= s.login_time}

get_latest_login(uid) ==
  LET C == {s \in login_sessions : s.user_id = uid}
  IN {s \in C : \A q \in C : q.login_time <= s.login_time}

get_latest_logout(uid) ==
  LET C == {s \in logout_sessions : s.user_id = uid}
  IN {s \in C : \A q \in C : q.logout_time <= s.logout_time}

PointersOf(uid) == {r \in punched_in : r.user_id = uid}

\* collection.update_one({'_id': id}, {'$set': row}): every field of the
\* caller's copy overwrites the stored row, if it is still stored
UpdateById(S, row) ==
  {IF r.id = row.id THEN row ELSE r : r \in S}

\* ---- request handlers: local state ----
Idle ==
  [op |-> "none", pc |-> "idle", email |-> "", code |-> "", pw |-> "",
   dev |-> "", user |-> {}, otp |-> {}, todo |-> {}, rec |-> {},
   ts |-> 0, date |-> 0, res |-> "none", w |-> {}, replay |-> FALSE,
   prev |-> {}]

\* a request is accepted into the first slot that has no request in flight
Free(p) ==
  /\ nreq < MaxReq
  /\ proc[p].pc \in {"idle", "done"}
  /\ \A q \in Procs : q < p => proc[q].pc \notin {"idle", "done"}

\* a request enters slot p; replay records that it repeats, with the same
\* email and code, the request this slot answered last with a success; prev
\* keeps the OTP which that request accepted when it was the same operation
\* for the same email
Accept(p, op, email, code) ==
  [Idle EXCEPT !.op = op, !.email = email, !.code = code, !.pc = "run",
               !.replay = /\ proc[p].op = op
                          /\ proc[p].email = email
                          /\ proc[p].code = code
                          /\ proc[p].res \in {"EmailVerified", "PasswordReset"},
               !.prev = IF /\ proc[p].op = op
                           /\ proc[p].email = email
                           /\ proc[p].res \in {"EmailVerified", "PasswordReset"}
                        THEN proc[p].otp ELSE {}]

\* the handler returns its response: locals are dropped; the request's
\* inputs, the OTP it accepted, its result and the collections it wrote stay
\* visible
Respond(l, r) ==
  [l EXCEPT !.pc = "done", !.res = r, !.user = {}, !.todo = {},
            !.rec = {}, !.ts = 0, !.date = 0]

Wrote(l, c) == [l EXCEPT !.w = @ \cup c]

Set(p, l) == proc' = [proc EXCEPT ![p] = l]

\* ---- initial states ----
\* Each initial state is the store as a run of the handlers from the empty
\* database leaves it; the clock stands at StartTime.
NoRequests ==
  /\ now = StartTime
  /\ nticks = 0
  /\ nreq = 0
  /\ proc = [p \in Procs |-> Idle]

\* the user row after signup and verify-otp
U0 == [id |-> 1, email |-> "a@x.com", password |-> make_password("pw1"),
       is_verified |-> TRUE, created_at |-> get_ist_time(StartTime - 10),
       updated_at |-> get_ist_time(StartTime - 5)]

\* the user row of a signup accepted at StartTime - OTP_TTL: it is about to
\* become ten minutes old
U1 == [id |-> 1, email |-> "a@x.com", password |-> make_password("pw1"),
       is_verified |-> FALSE,
       created_at |-> get_ist_time(StartTime - OTP_TTL + 1),
       updated_at |-> get_ist_time(StartTime - OTP_TTL + 1)]

\* the signup OTP of U1
O1 == [id |-> 2, email |-> "a@x.com", otp |-> "111111", purpose |-> "signup",
       is_used |-> FALSE, created_at |-> get_ist_time(StartTime - OTP_TTL + 3)]

\* the session of a login from the web
S0 == [id |-> 2, user_id |-> 1, device_type |-> "web",
       login_time |-> get_ist_time(StartTime - 3), is_active |-> TRUE]

\* the OTP of a forgot-password request after that login
O2 == [id |-> 3, email |-> "a@x.com", otp |-> "111111",
       purpose |-> "forgot_password", is_used |-> FALSE,
       created_at |-> get_ist_time(StartTime - 1)]

\* the OTP of a forgot-password request for the unverified U1
O3 == [id |-> 3, email |-> "a@x.com", otp |-> "222222",
       purpose |-> "forgot_password", is_used |-> FALSE,
       created_at |-> get_ist_time(StartTime - 1)]

\* the OTPs of two forgot-password requests after that login
O4 == [id |-> 3, email |-> "a@x.com", otp |-> "222222",
       purpose |-> "forgot_password", is_used |-> FALSE,
       created_at |-> get_ist_time(StartTime - 2)]

O5 == [O2 EXCEPT !.id = 4]

\* the PunchPointer of a punch-in after that login
P0 == [id |-> 3, user_id |-> 1, email |-> "a@x.com",
       punched_in_date |-> DateOf(StartTime - 2), created_at |-> StartTime - 1,
       out |-> {}]

\* empty database
InitEmpty ==
  /\ NoRequests
  /\ nextId = 1
  /\ users = {}
  /\ otps = {}
  /\ login_sessions = {}
  /\ logout_sessions = {}
  /\ punched_in = {}
  /\ punched_out = {}
  /\ attendance = {}
  /\ tokens = {}

\* after signup, almost ten minutes ago
InitPending ==
  /\ NoRequests
  /\ nextId = 3
  /\ users = {U1}
  /\ otps = {O1}
  /\ login_sessions = {}
  /\ logout_sessions = {}
  /\ punched_in = {}
  /\ punched_out = {}
  /\ attendance = {}
  /\ tokens = {}

\* after signup, almost ten minutes ago, and forgot-password: the handler
\* does not ask whether the user is verified
InitPendingResetRequested ==
  /\ NoRequests
  /\ nextId = 4
  /\ users = {U1}
  /\ otps = {O1, O3}
  /\ login_sessions = {}
  /\ logout_sessions = {}
  /\ punched_in = {}
  /\ punched_out = {}
  /\ attendance = {}
  /\ tokens = {}

\* after signup and verify-otp
InitVerified ==
  /\ NoRequests
  /\ nextId = 2
  /\ users = {U0}
  /\ otps = {}
  /\ login_sessions = {}
  /\ logout_sessions = {}
  /\ punched_in = {}
  /\ punched_out = {}
  /\ attendance = {}
  /\ tokens = {}

\* after signup, verify-otp and login
InitLoggedIn ==
  /\ NoRequests
  /\ nextId = 3
  /\ users = {U0}
  /\ otps = {}
  /\ login_sessions = {S0}
  /\ logout_sessions = {}
  /\ punched_in = {}
  /\ punched_out = {}
  /\ attendance = {}
  /\ tokens = {"a@x.com"}

\* after signup, verify-otp, login and forgot-password
InitResetRequested ==
  /\ NoRequests
  /\ nextId = 4
  /\ users = {U0}
  /\ otps = {O2}
  /\ login_sessions = {S0}
  /\ logout_sessions = {}
  /\ punched_in = {}
  /\ punched_out = {}
  /\ attendance = {}
  /\ tokens = {"a@x.com"}

\* after signup, verify-otp, login and two forgot-password requests
InitResetRequestedTwice ==
  /\ NoRequests
  /\ nextId = 5
  /\ users = {U0}
  /\ otps = {O4, O5}
  /\ login_sessions = {S0}
  /\ logout_sessions = {}
  /\ punched_in = {}
  /\ punched_out = {}
  /\ attendance = {}
  /\ tokens = {"a@x.com"}

\* after signup, verify-otp, login and punch-in
InitPunchedIn ==
  /\ NoRequests
  /\ nextId = 4
  /\ users = {U0}
  /\ otps = {}
  /\ login_sessions = {S0}
  /\ logout_sessions = {}
  /\ punched_in = {P0}
  /\ punched_out = {}
  /\ attendance = {P0}
  /\ tokens = {"a@x.com"}

Init ==
  \/ InitEmpty
  \/ InitPending
  \/ InitPendingResetRequested
  \/ InitVerified
  \/ InitLoggedIn
  \/ InitResetRequested
  \/ InitResetRequestedTwice
  \/ InitPunchedIn

\* ---- time passes ----
Tick ==
  /\ nticks < MaxTicks
  /\ \E d \in TickSteps : now' = now + d
  /\ nticks' = nticks + 1
  /\ UNCHANGED <<nreq, nextId, stores, tokens, proc>>

\* ======================= punch_in ========================================
\* views_mongo.py 297-309: bearer token, MongoUser.get_by_email, date
punch_in_get_user(p) ==
  /\ Free(p)
  /\ \E email \in Emails :
       LET l == Accept(p, "punch_in", email, "") IN
       IF email \notin tokens
       THEN Set(p, Respond(l, "AuthenticationRequired")) /\ now' = now
       ELSE IF UsersByEmail(email) = {}
       THEN Set(p, Respond(l, "UserNotFound")) /\ now' = now
       ELSE /\ \E u \in UsersByEmail(email) :
                 Set(p, [l EXCEPT !.pc = "pi_existing", !.user = {u},
                                  !.date = DateOf(now)])
            /\ now' = now + 1
  /\ nreq' = nreq + 1
  /\ UNCHANGED <<nticks, nextId, stores, tokens>>

\* punch_in without the pointer check
punch_in_check_existing_skipped(p) ==
  /\ proc[p].pc = "pi_existing"
  /\ Set(p, [proc[p] EXCEPT !.pc = "pi_session"])
  /\ UNCHANGED <<now, nticks, nreq, nextId, stores, tokens>>

\* views_mongo.py 310-315: find_one({'user_id'}) in punched_in
punch_in_check_existing(p) ==
  /\ proc[p].pc = "pi_existing"
  /\ LET l == proc[p]
         u == CHOOSE u \in l.user : TRUE IN
       IF PointersOf(u.id) # {}
       THEN Set(p, Respond(l, "AlreadyPunchedIn"))
       ELSE Set(p, [l EXCEPT !.pc = "pi_session"])
  /\ UNCHANGED <<now, nticks, nreq, nextId, stores, tokens>>

\* punch_in without the session check
punch_in_check_session_skipped(p) ==
  /\ proc[p].pc = "pi_session"
  /\ Set(p, [proc[p] EXCEPT !.pc = "pi_today"])
  /\ UNCHANGED <<now, nticks, nreq, nextId, stores, tokens>>

\* views_mongo.py 316-320: find_one({'user_id', 'is_active': True})
punch_in_check_session(p) ==
  /\ proc[p].pc = "pi_session"
  /\ LET l == proc[p]
         u == CHOOSE u \in l.user : TRUE IN
       IF ActiveSessions(u.id) = {}
       THEN Set(p, Respond(l, "NotLoggedIn"))
       ELSE Set(p, [l EXCEPT !.pc = "pi_today"])
  /\ UNCHANGED <<now, nticks, nreq, nextId, stores, tokens>>

\* views_mongo.py 321-336: find_one({'user_id', 'punched_in_date': date}) in
\* punched_in, then punch_in_data with created_at = datetime.utcnow()
punch_in_check_today(p) ==
  /\ proc[p].pc = "pi_today"
  /\ LET l == proc[p]
         u == CHOOSE u \in l.user : TRUE IN
       IF {r \in PointersOf(u.id) : r.punched_in_date = l.date} # {}
       THEN Set(p, Respond(l, "AlreadyPunchedInToday")) /\ now' = now
       ELSE /\ Set(p, [l EXCEPT !.pc = "pi_insert", !.ts = now])
            /\ now' = now + 1
  /\ UNCHANGED <<nticks, nreq, nextId, stores, tokens>>

\* views_mongo.py 337: punched_in_collection.insert_one(punch_in_data)
punch_in_insert_pointer(p) ==
  /\ proc[p].pc = "pi_insert"
  /\ LET l == proc[p]
         u == CHOOSE u \in l.user : TRUE
         row == [id |-> nextId, user_id |-> u.id, email |-> u.email,
                 punched_in_date |-> l.date, created_at |-> l.ts,
                 out |-> {}] IN
       /\ punched_in' = punched_in \cup {row}
       /\ Set(p, Wrote([l EXCEPT !.pc = "pi_attendance", !.rec = {row}],
                       {"punched_in"}))
  /\ nextId' = nextId + 1
  /\ UNCHANGED <<now, nticks, nreq, users, otps, login_sessions,
                 logout_sessions, punched_out, attendance, tokens>>

\* views_mongo.py 339-346: the copy of punch_in_data (with the _id that
\* insert_one added) goes into attendance
punch_in_insert_attendance(p) ==
  /\ proc[p].pc = "pi_attendance"
  /\ LET l == proc[p] IN
       /\ attendance' = attendance \cup l.rec
       /\ Set(p, Wrote(Respond(l, "PunchedIn"), {"attendance"}))
  /\ UNCHANGED <<now, nticks, nreq, nextId, users, otps, login_sessions,
                 logout_sessions, punched_in, punched_out, tokens>>

\* ======================= punch_out =======================================
\* views_mongo.py 359-365: bearer token, MongoUser.get_by_email
punch_out_get_user(p) ==
  /\ Free(p)
  /\ \E email \in Emails :
       LET l == Accept(p, "punch_out", email, "") IN
       IF email \notin tokens
       THEN Set(p, Respond(l, "AuthenticationRequired"))
       ELSE IF UsersByEmail(email) = {}
       THEN Set(p, Respond(l, "UserNotFound"))
       ELSE \E u \in UsersByEmail(email) :
              Set(p, [l EXCEPT !.pc = "po_session", !.user = {u}])
  /\ nreq' = nreq + 1
  /\ UNCHANGED <<now, nticks, nextId, stores, tokens>>

\* punch_out without the session check
punch_out_check_session_skipped(p) ==
  /\ proc[p].pc = "po_session"
  /\ Set(p, [proc[p] EXCEPT !.pc = "po_pointer", !.date = DateOf(now)])
  /\ now' = now + 1
  /\ UNCHANGED <<nticks, nreq, nextId, stores, tokens>>

\* views_mongo.py 369-375: MongoLoginSession.get_active_session, then date
punch_out_check_session(p) ==
  /\ proc[p].pc = "po_session"
  /\ LET l == proc[p]
         u == CHOOSE u \in l.user : TRUE IN
       IF get_active_session(u.id) = {}
       THEN Set(p, Respond(l, "NotLoggedIn")) /\ now' = now
       ELSE /\ Set(p, [l EXCEPT !.pc = "po_pointer", !.date = DateOf(now)])
            /\ now' = now + 1
  /\ UNCHANGED <<nticks, nreq, nextId, stores, tokens>>

\* punch_out without the pointer check of the view
punch_out_check_pointer_skipped(p) ==
  /\ proc[p].pc = "po_pointer"
  /\ Set(p, [proc[p] EXCEPT !.pc = "po_find"])
  /\ UNCHANGED <<now, nticks, nreq, nextId, stores, tokens>>

\* views_mongo.py 376-381: find_one({'user_id'}) in punched_in
punch_out_check_pointer(p) ==
  /\ proc[p].pc = "po_pointer"
  /\ LET l == proc[p]
         u == CHOOSE u \in l.user : TRUE IN
       IF PointersOf(u.id) = {}
       THEN Set(p, Respond(l, "NoPunchInFound"))
       ELSE Set(p, [l EXCEPT !.pc = "po_find"])
  /\ UNCHANGED <<now, nticks, nreq, nextId, stores, tokens>>

\* mongo_models.py 699-708: MongoAttendance.punch_out reads the pointer again
\* and extends its copy; the ValueError is not caught by the view
punch_out_find_pointer(p) ==
  /\ proc[p].pc = "po_find"
  /\ LET l == proc[p]
         u == CHOOSE u \in l.user : TRUE IN
       IF PointersOf(u.id) = {}
       THEN Set(p, Respond(l, "ServerError")) /\ now' = now
       ELSE /\ \E r \in PointersOf(u.id) :
                 Set(p, [l EXCEPT !.pc = "po_insert",
                           !.rec = {[r EXCEPT !.out =
                              {[punched_out_date |-> l.date,
                                punched_out_at |-> get_ist_time(now)]}]}])
            /\ now' = now + 1
  /\ UNCHANGED <<nticks, nreq, nextId, stores, tokens>>

\* insert_one of a copy without the pointer's _id: no DuplicateKeyError
punch_out_insert_punched_out_no_id(p) ==
  /\ proc[p].pc = "po_insert"
  /\ LET l == proc[p] IN
       /\ punched_out' = punched_out \cup l.rec
       /\ Set(p, Wrote([l EXCEPT !.pc = "po_delete"], {"punched_out"}))
  /\ UNCHANGED <<now, nticks, nreq, nextId, users, otps, login_sessions,
                 logout_sessions, punched_in, attendance, tokens>>

\* mongo_models.py 709: punched_out_collection.insert_one(punch_out_data);
\* the copy carries the pointer's _id, a second insert of it is a
\* DuplicateKeyError
punch_out_insert_punched_out(p) ==
  /\ proc[p].pc = "po_insert"
  /\ LET l == proc[p]
         r == CHOOSE r \in l.rec : TRUE IN
       IF \E q \in punched_out : q.id = r.id
       THEN Set(p, Respond(l, "ServerError")) /\ punched_out' = punched_out
       ELSE /\ punched_out' = punched_out \cup {r}
            /\ Set(p, Wrote([l EXCEPT !.pc = "po_delete"], {"punched_out"}))
  /\ UNCHANGED <<now, nticks, nreq, nextId, users, otps, login_sessions,
                 logout_sessions, punched_in, attendance, tokens>>

\* mongo_models.py 710: punched_in_collection.delete_one({'user_id'})
punch_out_delete_pointer(p) ==
  /\ proc[p].pc = "po_delete"
  /\ LET l == proc[p]
         u == CHOOSE u \in l.user : TRUE IN
       IF PointersOf(u.id) = {}
       THEN Set(p, [l EXCEPT !.pc = "po_attendance"])
            /\ punched_in' = punched_in
       ELSE /\ \E r \in PointersOf(u.id) : punched_in' = punched_in \ {r}
            /\ Set(p, Wrote([l EXCEPT !.pc = "po_attendance"],
                            {"punched_in"}))
  /\ UNCHANGED <<now, nticks, nreq, nextId, users, otps, login_sessions,
                 logout_sessions, punched_out, attendance, tokens>>

\* mongo_models.py 775-777: MongoAttendance.action_type is
\* self.data.get('action_type'), None for a row without that key
action_type(r) ==
  IF "action_type" \in DOMAIN r THEN r.action_type ELSE "None"

OpenAttendance(uid) == {r \in attendance : r.user_id = uid /\ r.out = {}}

\* punch_out appending a punch-out row to attendance instead of updating
\* the open one
punch_out_update_attendance_appends(p) ==
  /\ proc[p].pc = "po_attendance"
  /\ LET l == proc[p]
         u == CHOOSE u \in l.user : TRUE IN
       /\ attendance' = attendance \cup
            {[id |-> nextId, user_id |-> u.id, email |-> u.email,
              punched_in_date |-> l.date, created_at |-> now,
              out |-> {[punched_out_date |-> l.date,
                        punched_out_at |-> now]}]}
       /\ Set(p, Wrote(Respond(l, "PunchedOut"), {"attendance"}))
  /\ now' = now + 1
  /\ nextId' = nextId + 1
  /\ UNCHANGED <<nticks, nreq, users, otps, login_sessions,
                 logout_sessions, punched_in, punched_out, tokens>>

\* views_mongo.py 392-411: update_one({'user_id', 'punched_out_date':
\* {'$exists': False}}) in attendance, punched_out_at = datetime.utcnow()
punch_out_update_attendance(p) ==
  /\ proc[p].pc = "po_attendance"
  /\ LET l == proc[p]
         u == CHOOSE u \in l.user : TRUE IN
       IF OpenAttendance(u.id) = {}
       THEN Set(p, Respond(l, "PunchedOut")) /\ attendance' = attendance
       ELSE /\ \E r \in OpenAttendance(u.id) :
                 attendance' = (attendance \ {r}) \cup
                   {[r EXCEPT !.out = {[punched_out_date |-> l.date,
                                        punched_out_at |-> now]}]}
            /\ Set(p, Wrote(Respond(l, "PunchedOut"), {"attendance"}))
  /\ now' = now + 1
  /\ UNCHANGED <<nticks, nreq, nextId, users, otps, login_sessions,
                 logout_sessions, punched_in, punched_out, tokens>>

\* ======================= login ===========================================
\* views_mongo.py 140-152, 180-188: MongoUser.authenticate and the branch on
\* is_verified
login_authenticate(p) ==
  /\ Free(p)
  /\ \E email \in Emails, pw \in Passwords, dev \in Devices :
       LET l == [Accept(p, "login", email, "") EXCEPT !.pw = pw, !.dev = dev] IN
       IF UsersByEmail(email) = {}
       THEN Set(p, Respond(l, "InvalidCredentials"))
       ELSE \E u \in UsersByEmail(email) :
              IF ~check_password(pw, u.password)
              THEN Set(p, Respond(l, "InvalidCredentials"))
              ELSE IF ~u.is_verified
              THEN Set(p, Respond(l, "EmailNotVerified"))
              ELSE Set(p, [l EXCEPT !.pc = "li_find", !.user = {u}])
  /\ nreq' = nreq + 1
  /\ UNCHANGED <<now, nticks, nextId, stores, tokens>>

\* views_mongo.py 157: collection.find({'user_id', 'is_active': True})
login_find_active(p) ==
  /\ proc[p].pc = "li_find"
  /\ LET l == proc[p]
         u == CHOOSE u \in l.user : TRUE
         act == ActiveSessions(u.id) IN
       Set(p, [l EXCEPT !.todo = act,
                        !.pc = IF act = {} THEN "li_create"
                               ELSE "li_deactivate"])
  /\ UNCHANGED <<now, nticks, nreq, nextId, stores, tokens>>

\* login that leaves the earlier session active
login_deactivate_keep(p) ==
  /\ proc[p].pc = "li_deactivate"
  /\ LET l == proc[p] IN
       \E s \in l.todo :
         /\ login_sessions' = login_sessions
         /\ Set(p, [l EXCEPT !.pc = "li_logout_row", !.rec = {s},
                             !.todo = @ \ {s}])
  /\ UNCHANGED <<now, nticks, nreq, nextId, users, otps, logout_sessions,
                 punched_in, punched_out, attendance, tokens>>

\* views_mongo.py 158-160: update_one({'_id'}, {'$set': {'is_active': False}})
login_deactivate(p) ==
  /\ proc[p].pc = "li_deactivate"
  /\ LET l == proc[p] IN
       \E s \in l.todo :
         /\ login_sessions' =
              {IF r.id = s.id THEN [r EXCEPT !.is_active = FALSE] ELSE r :
                 r \in login_sessions}
         /\ Set(p, Wrote([l EXCEPT !.pc = "li_logout_row", !.rec = {s},
                                   !.todo = @ \ {s}], {"login_sessions"}))
  /\ UNCHANGED <<now, nticks, nreq, nextId, users, otps, logout_sessions,
                 punched_in, punched_out, attendance, tokens>>

\* mongo_models.py 553-564: MongoLogoutSession.create_session
LogoutRow(id, uid, dev, t) ==
  [id |-> id, user_id |-> uid, device_type |-> dev,
   logout_time |-> get_ist_time(t)]

\* views_mongo.py 161: MongoLogoutSession.create_session(user.id, device_type)
\* with the device type of the login request
login_create_logout(p) ==
  /\ proc[p].pc = "li_logout_row"
  /\ LET l == proc[p]
         u == CHOOSE u \in l.user : TRUE IN
       /\ logout_sessions' =
            logout_sessions \cup {LogoutRow(nextId, u.id, l.dev, now)}
       /\ Set(p, Wrote([l EXCEPT !.rec = {},
                          !.pc = IF l.todo = {} THEN "li_create"
                                 ELSE "li_deactivate"], {"logout_sessions"}))
  /\ nextId' = nextId + 1
  /\ now' = now + 1
  /\ UNCHANGED <<nticks, nreq, users, otps, login_sessions, punched_in,
                 punched_out, attendance, tokens>>

\* views_mongo.py 164-178 and mongo_models.py 505-522:
\* MongoLoginSession.create_session, then generate_jwt_tokens
login_create_session(p) ==
  /\ proc[p].pc = "li_create"
  /\ LET l == proc[p]
         u == CHOOSE u \in l.user : TRUE IN
       /\ login_sessions' = login_sessions \cup
            {[id |-> nextId, user_id |-> u.id, device_type |-> l.dev,
              login_time |-> get_ist_time(now), is_active |-> TRUE]}
       /\ tokens' = tokens \cup {u.email}
       /\ Set(p, Wrote(Respond(l, "LoginOk"), {"login_sessions"}))
  /\ nextId' = nextId + 1
  /\ now' = now + 1
  /\ UNCHANGED <<nticks, nreq, users, otps, logout_sessions, punched_in,
                 punched_out, attendance>>

\* ======================= logout ==========================================
\* views_mongo.py 418-421: get_user_id_from_request; IsAuthenticated lets
\* only token holders in
logout_get_user(p) ==
  /\ Free(p)
  /\ \E email \in tokens, dev \in Devices :
       LET l == [Accept(p, "logout", email, "") EXCEPT !.dev = dev] IN
       IF UsersByEmail(email) = {}
       THEN Set(p, Respond(l, "UserNotFound"))
       ELSE \E u \in UsersByEmail(email) :
              Set(p, [l EXCEPT !.pc = "lo_create", !.user = {u}])
  /\ nreq' = nreq + 1
  /\ UNCHANGED <<now, nticks, nextId, stores, tokens>>

\* views_mongo.py 424: MongoLogoutSession.create_session
logout_create_session(p) ==
  /\ proc[p].pc = "lo_create"
  /\ LET l == proc[p]
         u == CHOOSE u \in l.user : TRUE IN
       /\ logout_sessions' =
            logout_sessions \cup {LogoutRow(nextId, u.id, l.dev, now)}
       /\ Set(p, Wrote([l EXCEPT !.pc = "lo_deactivate"],
                       {"logout_sessions"}))
  /\ nextId' = nextId + 1
  /\ now' = now + 1
  /\ UNCHANGED <<nticks, nreq, users, otps, login_sessions, punched_in,
                 punched_out, attendance, tokens>>

\* logout that also removes the user's PunchPointer
logout_deactivate_and_punch_out(p) ==
  /\ proc[p].pc = "lo_deactivate"
  /\ LET l == proc[p]
         u == CHOOSE u \in l.user : TRUE IN
       /\ login_sessions' =
            {IF r.user_id = u.id /\ r.is_active
             THEN [r EXCEPT !.is_active = FALSE] ELSE r : r \in login_sessions}
       /\ punched_in' = punched_in \ PointersOf(u.id)
       /\ Set(p, Wrote(Respond(l, "LogoutOk"), {"login_sessions"}))
  /\ UNCHANGED <<now, nticks, nreq, nextId, users, otps, logout_sessions,
                 punched_out, attendance, tokens>>

\* logout without the update_many
logout_deactivate_skipped(p) ==
  /\ proc[p].pc = "lo_deactivate"
  /\ Set(p, Respond(proc[p], "LogoutOk"))
  /\ UNCHANGED <<now, nticks, nreq, nextId, stores, tokens>>

\* logout removing the user's active sessions instead of deactivating them
logout_deactivate_deletes(p) ==
  /\ proc[p].pc = "lo_deactivate"
  /\ LET l == proc[p]
         u == CHOOSE u \in l.user : TRUE IN
       /\ login_sessions' =
            {r \in login_sessions : ~(r.user_id = u.id /\ r.is_active)}
       /\ Set(p, Wrote(Respond(l, "LogoutOk"), {"login_sessions"}))
  /\ UNCHANGED <<now, nticks, nreq, nextId, users, otps, logout_sessions,
                 punched_in, punched_out, attendance, tokens>>

\* views_mongo.py 427-430: update_many({'user_id', 'is_active': True},
\* {'$set': {'is_active': False}})
logout_deactivate(p) ==
  /\ proc[p].pc = "lo_deactivate"
  /\ LET l == proc[p]
         u == CHOOSE u \in l.user : TRUE IN
       /\ login_sessions' =
            {IF r.user_id = u.id /\ r.is_active
             THEN [r EXCEPT !.is_active = FALSE] ELSE r : r \in login_sessions}
       /\ Set(p, Wrote(Respond(l, "LogoutOk"), {"login_sessions"}))
  /\ UNCHANGED <<now, nticks, nreq, nextId, users, otps, logout_sessions,
                 punched_in, punched_out, attendance, tokens>>

\* ======================= signup ==========================================
\* mongo_models.py 386-391, called from cleanup_unverified_users (line 140):
\* MongoOTP.cleanup_otps_for_email deletes every OTP of the email
signup_cleanup_otps_for_email(p) ==
  /\ Free(p)
  /\ \E email \in Emails, pw \in SignupPasswords :
       LET l == [Accept(p, "signup", email, "") EXCEPT !.pw = pw, !.pc = "su_cleanup"]
           gone == {o \in otps : o.email = email} IN
       /\ otps' = otps \ gone
       /\ Set(p, IF gone = {} THEN l ELSE Wrote(l, {"otps"}))
  /\ nreq' = nreq + 1
  /\ UNCHANGED <<now, nticks, nextId, users, login_sessions, logout_sessions,
                 punched_in, punched_out, attendance, tokens>>

\* mongo_models.py 124-143 and 94-102: delete_many of the unverified rows of
\* the email older than ten minutes, then user_data gets its created_at
signup_cleanup_unverified_users(p) ==
  /\ proc[p].pc = "su_cleanup"
  /\ LET l == proc[p]
         gone == {u \in users : /\ ~u.is_verified
                                /\ u.created_at < get_ist_time(now) - OTP_TTL
                                /\ u.email = l.email} IN
       /\ users' = users \ gone
       /\ Set(p, IF gone = {} THEN [l EXCEPT !.pc = "su_find", !.ts = now + 1]
                 ELSE Wrote([l EXCEPT !.pc = "su_find", !.ts = now + 1],
                            {"users"}))
  /\ now' = now + 2
  /\ UNCHANGED <<nticks, nreq, nextId, otps, login_sessions, logout_sessions,
                 punched_in, punched_out, attendance, tokens>>

\* signup_find_existing without the age test of line 113: every unverified
\* row counts as old
signup_find_existing_ignores_age(p) ==
  /\ proc[p].pc = "su_find"
  /\ LET l == proc[p] IN
       IF UsersByEmail(l.email) = {}
       THEN Set(p, [l EXCEPT !.pc = "su_insert"]) /\ now' = now
       ELSE \E u \in UsersByEmail(l.email) :
              IF u.is_verified
              THEN Set(p, Respond(l, "DuplicateVerifiedUser")) /\ now' = now
              ELSE /\ now' = now + 1
                   /\ Set(p, [l EXCEPT !.pc = "su_delete"])
  /\ UNCHANGED <<nticks, nreq, nextId, stores, tokens>>

\* mongo_models.py 107-116: find_one({'email'}) and the two ValueErrors
signup_find_existing(p) ==
  /\ proc[p].pc = "su_find"
  /\ LET l == proc[p] IN
       IF UsersByEmail(l.email) = {}
       THEN Set(p, [l EXCEPT !.pc = "su_insert"]) /\ now' = now
       ELSE \E u \in UsersByEmail(l.email) :
              IF u.is_verified
              THEN Set(p, Respond(l, "DuplicateVerifiedUser")) /\ now' = now
              ELSE /\ now' = now + 1
                   /\ IF (get_ist_time(now) - u.created_at) < OTP_TTL
                      THEN Set(p, Respond(l, "RecentUnverifiedSignupPending"))
                      ELSE Set(p, [l EXCEPT !.pc = "su_delete"])
  /\ UNCHANGED <<nticks, nreq, nextId, stores, tokens>>

\* create_user without the delete_one of the old unverified row
signup_delete_old_skipped(p) ==
  /\ proc[p].pc = "su_delete"
  /\ Set(p, [proc[p] EXCEPT !.pc = "su_insert"])
  /\ UNCHANGED <<now, nticks, nreq, nextId, stores, tokens>>

\* mongo_models.py 118: delete_one({'email', 'is_verified': False})
signup_delete_old(p) ==
  /\ proc[p].pc = "su_delete"
  /\ LET l == proc[p]
         old == {u \in UsersByEmail(l.email) : ~u.is_verified} IN
       IF old = {}
       THEN Set(p, [l EXCEPT !.pc = "su_insert"]) /\ users' = users
       ELSE /\ \E u \in old : users' = users \ {u}
            /\ Set(p, Wrote([l EXCEPT !.pc = "su_insert"], {"users"}))
  /\ UNCHANGED <<now, nticks, nreq, nextId, otps, login_sessions,
                 logout_sessions, punched_in, punched_out, attendance, tokens>>

\* mongo_models.py 120-122: insert_one(user_data)
signup_insert_user(p) ==
  /\ proc[p].pc = "su_insert"
  /\ LET l == proc[p]
         row == [id |-> nextId, email |-> l.email,
                 password |-> make_password(l.pw), is_verified |-> FALSE,
                 created_at |-> get_ist_time(l.ts),
                 updated_at |-> get_ist_time(l.ts)] IN
       /\ users' = users \cup {row}
       /\ Set(p, Wrote([l EXCEPT !.pc = "su_sweep", !.user = {row}],
                       {"users"}))
  /\ nextId' = nextId + 1
  /\ UNCHANGED <<now, nticks, nreq, otps, login_sessions, logout_sessions,
                 punched_in, punched_out, attendance, tokens>>

\* mongo_models.py 371-384: MongoOTP.cleanup_expired_otps()
ExpiredOtps(t) == {o \in otps : o.created_at < get_ist_time(t) - OTP_TTL}

\* mongo_models.py 314-326: the new row of MongoOTP.create_otp
OtpRow(id, email, code, purpose, t) ==
  [id |-> id, email |-> email, otp |-> code, purpose |-> purpose,
   is_used |-> FALSE, created_at |-> get_ist_time(t)]

\* views_mongo.py 59 and mongo_models.py 312: the sweep of create_otp
signup_cleanup_expired_otps(p) ==
  /\ proc[p].pc = "su_sweep"
  /\ LET l == proc[p] IN
       /\ otps' = otps \ ExpiredOtps(now)
       /\ Set(p, IF ExpiredOtps(now) = {} THEN [l EXCEPT !.pc = "su_otp"]
                 ELSE Wrote([l EXCEPT !.pc = "su_otp"], {"otps"}))
  /\ now' = now + 1
  /\ UNCHANGED <<nticks, nreq, nextId, users, login_sessions, logout_sessions,
                 punched_in, punched_out, attendance, tokens>>

\* views_mongo.py 59-76 and mongo_models.py 314-326: the insert of create_otp
signup_insert_otp(p) ==
  /\ proc[p].pc = "su_otp"
  /\ LET l == proc[p] IN
       \E code \in Codes :
         /\ otps' = otps \cup {OtpRow(nextId, l.email, code, "signup", now)}
         /\ Set(p, Wrote(Respond(l, "UserCreated"), {"otps"}))
  /\ nextId' = nextId + 1
  /\ now' = now + 1
  /\ UNCHANGED <<nticks, nreq, users, login_sessions, logout_sessions,
                 punched_in, punched_out, attendance, tokens>>

\* ======================= verify_otp ======================================
\* verify_otp testing is_valid() before it compares the code
verify_otp_get_latest_expiry_first(p) ==
  /\ Free(p)
  /\ \E email \in Emails, code \in Codes :
       LET l == Accept(p, "verify_otp", email, code) IN
       IF LatestUnused(email, "signup") = {}
       THEN Set(p, Respond(l, "InvalidOTP")) /\ now' = now
       ELSE \E o \in LatestUnused(email, "signup") :
              /\ now' = now + 1
              /\ IF ~is_valid(o, now)
                 THEN Set(p, Respond(l, "OTPExpired"))
                 ELSE IF o.otp # code
                 THEN Set(p, Respond(l, "InvalidOTP"))
                 ELSE Set(p, [l EXCEPT !.pc = "vo_delete", !.otp = {o}])
  /\ nreq' = nreq + 1
  /\ UNCHANGED <<nticks, nextId, stores, tokens>>

\* views_mongo.py 96-115: get_latest_unused(email, 'signup'), the code
\* comparison and is_valid()
verify_otp_get_latest(p) ==
  /\ Free(p)
  /\ \E email \in Emails, code \in Codes :
       LET l == Accept(p, "verify_otp", email, code) IN
       IF LatestUnused(email, "signup") = {}
       THEN Set(p, Respond(l, "InvalidOTP")) /\ now' = now
       ELSE \E o \in LatestUnused(email, "signup") :
              IF o.otp # code
              THEN Set(p, Respond(l, "InvalidOTP")) /\ now' = now
              ELSE /\ now' = now + 1
                   /\ IF ~is_valid(o, now)
                      THEN Set(p, Respond(l, "OTPExpired"))
                      ELSE Set(p, [l EXCEPT !.pc = "vo_delete", !.otp = {o}])
  /\ nreq' = nreq + 1
  /\ UNCHANGED <<nticks, nextId, stores, tokens>>

\* consuming by MongoOTP.mark_as_used instead of deleting the row
DeleteOtp_mark_as_used(o) ==
  {IF r.id = o.id THEN [r EXCEPT !.is_used = TRUE] ELSE r : r \in otps}

\* mongo_models.py 363-369: MongoOTP.delete, delete_one({'_id'})
DeleteOtp(o) == {r \in otps : r.id # o.id}

\* views_mongo.py 118: otp_obj.delete()
verify_otp_delete(p) ==
  /\ proc[p].pc = "vo_delete"
  /\ LET l == proc[p]
         o == CHOOSE o \in l.otp : TRUE IN
       /\ otps' = DeleteOtp(o)
       /\ Set(p, IF DeleteOtp(o) = otps THEN [l EXCEPT !.pc = "vo_user"]
                 ELSE Wrote([l EXCEPT !.pc = "vo_user"], {"otps"}))
  /\ UNCHANGED <<now, nticks, nreq, nextId, users, login_sessions,
                 logout_sessions, punched_in, punched_out, attendance, tokens>>

\* views_mongo.py 121-122, 128-131: MongoUser.get_by_email
verify_otp_get_user(p) ==
  /\ proc[p].pc = "vo_user"
  /\ LET l == proc[p] IN
       IF UsersByEmail(l.email) = {}
       THEN Set(p, Respond(l, "UserNotFound"))
       ELSE \E u \in UsersByEmail(l.email) :
              Set(p, [l EXCEPT !.pc = "vo_save", !.user = {u}])
  /\ UNCHANGED <<now, nticks, nreq, nextId, stores, tokens>>

\* mongo_models.py 197-204: MongoUser.save writes the whole local copy back
save(data, t) == UpdateById(users, [data EXCEPT !.updated_at = get_ist_time(t)])

\* mongo_models.py 192-195: MongoUser.verify_email
verify_email(u, t) == save([u EXCEPT !.is_verified = TRUE], t)

\* mongo_models.py 187-190: MongoUser.set_password
set_password(u, pw, t) == save([u EXCEPT !.password = make_password(pw)], t)

\* views_mongo.py 123-127: user.verify_email()
verify_otp_save(p) ==
  /\ proc[p].pc = "vo_save"
  /\ LET l == proc[p]
         u == CHOOSE u \in l.user : TRUE IN
       /\ users' = verify_email(u, now)
       /\ Set(p, Wrote(Respond(l, "EmailVerified"), {"users"}))
  /\ now' = now + 1
  /\ UNCHANGED <<nticks, nreq, nextId, otps, login_sessions, logout_sessions,
                 punched_in, punched_out, attendance, tokens>>

\* ======================= forgot_password =================================
\* views_mongo.py 199-212: MongoUser.get_by_email
forgot_password_get_user(p) ==
  /\ Free(p)
  /\ \E email \in Emails :
       LET l == Accept(p, "forgot_password", email, "") IN
       IF UsersByEmail(email) = {}
       THEN Set(p, Respond(l, "UserNotFound"))
       ELSE Set(p, [l EXCEPT !.pc = "fp_sweep"])
  /\ nreq' = nreq + 1
  /\ UNCHANGED <<now, nticks, nextId, stores, tokens>>

\* forgot_password issuing an OTP without the sweep
forgot_password_cleanup_skipped(p) ==
  /\ proc[p].pc = "fp_sweep"
  /\ Set(p, [proc[p] EXCEPT !.pc = "fp_otp"])
  /\ now' = now + 1
  /\ UNCHANGED <<nticks, nreq, nextId, stores, tokens>>

\* views_mongo.py 215 and mongo_models.py 312: the sweep of create_otp
forgot_password_cleanup_expired_otps(p) ==
  /\ proc[p].pc = "fp_sweep"
  /\ LET l == proc[p] IN
       /\ otps' = otps \ ExpiredOtps(now)
       /\ Set(p, IF ExpiredOtps(now) = {} THEN [l EXCEPT !.pc = "fp_otp"]
                 ELSE Wrote([l EXCEPT !.pc = "fp_otp"], {"otps"}))
  /\ now' = now + 1
  /\ UNCHANGED <<nticks, nreq, nextId, users, login_sessions, logout_sessions,
                 punched_in, punched_out, attendance, tokens>>

\* views_mongo.py 215-231 and mongo_models.py 314-326: the insert of create_otp
forgot_password_insert_otp(p) ==
  /\ proc[p].pc = "fp_otp"
  /\ LET l == proc[p] IN
       \E code \in Codes :
         /\ otps' = otps \cup
              {OtpRow(nextId, l.email, code, "forgot_password", now)}
         /\ Set(p, Wrote(Respond(l, "OtpSent"), {"otps"}))
  /\ nextId' = nextId + 1
  /\ now' = now + 1
  /\ UNCHANGED <<nticks, nreq, users, login_sessions, logout_sessions,
                 punched_in, punched_out, attendance, tokens>>

\* ======================= reset_password ==================================
\* views_mongo.py 242-247: MongoUser.get_by_email
reset_password_get_user(p) ==
  /\ Free(p)
  /\ \E email \in Emails, code \in Codes, pw \in NewPasswords :
       LET l == [Accept(p, "reset_password", email, code) EXCEPT !.pw = pw] IN
       IF UsersByEmail(email) = {}
       THEN Set(p, [l EXCEPT !.pc = "rp_otp"])
       ELSE \E u \in UsersByEmail(email) :
              Set(p, [l EXCEPT !.pc = "rp_logout", !.user = {u}])
  /\ nreq' = nreq + 1
  /\ UNCHANGED <<now, nticks, nextId, stores, tokens>>

\* views_mongo.py 248: MongoLogoutSession.get_latest_logout(user.id)
reset_password_get_latest_logout(p) ==
  /\ proc[p].pc = "rp_logout"
  /\ LET l == proc[p]
         u == CHOOSE u \in l.user : TRUE IN
       IF get_latest_logout(u.id) = {}
       THEN Set(p, [l EXCEPT !.pc = "rp_login", !.rec = {}])
       ELSE \E s \in get_latest_logout(u.id) :
              Set(p, [l EXCEPT !.pc = "rp_login", !.rec = {s}])
  /\ UNCHANGED <<now, nticks, nreq, nextId, stores, tokens>>

\* the guard with the comparison the wrong way round
LoggedOutAfterLogin_reversed(logout, login) ==
  \E o \in logout : \E i \in login : o.logout_time < i.login_time

\* the guard also rejecting a user who has never logged out
LoggedOutAfterLogin_or_never(logout, login) ==
  \/ logout = {}
  \/ \E o \in logout : \E i \in login : o.logout_time > i.login_time

\* views_mongo.py 250: latest_logout and latest_login and
\* latest_logout.data['logout_time'] > latest_login.timestamp
LoggedOutAfterLogin(logout, login) ==
  \E o \in logout : \E i \in login : o.logout_time > i.login_time

\* views_mongo.py 249-251: get_latest_login and the guard
reset_password_get_latest_login(p) ==
  /\ proc[p].pc = "rp_login"
  /\ LET l == proc[p]
         u == CHOOSE u \in l.user : TRUE IN
       IF LoggedOutAfterLogin(l.rec, get_latest_login(u.id))
       THEN Set(p, Respond(l, "SessionInvalidated"))
       ELSE Set(p, [l EXCEPT !.pc = "rp_otp", !.rec = {}, !.user = {}])
  /\ UNCHANGED <<now, nticks, nreq, nextId, stores, tokens>>

\* views_mongo.py 253-259: get_latest_unused(email, 'forgot_password') and
\* the code comparison; 'Invalid OTP' and 'Incorrect OTP' are both InvalidOTP
reset_password_get_latest_unused(p) ==
  /\ proc[p].pc = "rp_otp"
  /\ LET l == proc[p] IN
       IF LatestUnused(l.email, "forgot_password") = {}
       THEN Set(p, Respond(l, "InvalidOTP"))
       ELSE \E o \in LatestUnused(l.email, "forgot_password") :
              IF o.otp # l.code
              THEN Set(p, Respond(l, "InvalidOTP"))
              ELSE Set(p, [l EXCEPT !.pc = "rp_delete", !.otp = {o}])
  /\ UNCHANGED <<now, nticks, nreq, nextId, stores, tokens>>

\* views_mongo.py 262: otp_obj.delete()
reset_password_delete(p) ==
  /\ proc[p].pc = "rp_delete"
  /\ LET l == proc[p]
         o == CHOOSE o \in l.otp : TRUE IN
       /\ otps' = DeleteOtp(o)
       /\ Set(p, IF DeleteOtp(o) = otps THEN [l EXCEPT !.pc = "rp_user"]
                 ELSE Wrote([l EXCEPT !.pc = "rp_user"], {"otps"}))
  /\ UNCHANGED <<now, nticks, nreq, nextId, users, login_sessions,
                 logout_sessions, punched_in, punched_out, attendance, tokens>>

\* views_mongo.py 265-266, 272-275: MongoUser.get_by_email
reset_password_get_user_again(p) ==
  /\ proc[p].pc = "rp_user"
  /\ LET l == proc[p] IN
       IF UsersByEmail(l.email) = {}
       THEN Set(p, Respond(l, "UserNotFound"))
       ELSE \E u \in UsersByEmail(l.email) :
              Set(p, [l EXCEPT !.pc = "rp_save", !.user = {u}])
  /\ UNCHANGED <<now, nticks, nreq, nextId, stores, tokens>>

\* reset_password that also ends the user's sessions
reset_password_save_and_logout(p) ==
  /\ proc[p].pc = "rp_save"
  /\ LET l == proc[p]
         u == CHOOSE u \in l.user : TRUE IN
       /\ users' = set_password(u, l.pw, now)
       /\ login_sessions' =
            {IF r.user_id = u.id /\ r.is_active
             THEN [r EXCEPT !.is_active = FALSE] ELSE r : r \in login_sessions}
       /\ Set(p, Wrote(Respond(l, "PasswordReset"), {"users"}))
  /\ now' = now + 1
  /\ UNCHANGED <<nticks, nreq, nextId, otps, logout_sessions,
                 punched_in, punched_out, attendance, tokens>>

\* views_mongo.py 267-271: user.set_password(new_password)
reset_password_save(p) ==
  /\ proc[p].pc = "rp_save"
  /\ LET l == proc[p]
         u == CHOOSE u \in l.user : TRUE IN
       /\ users' = set_password(u, l.pw, now)
       /\ Set(p, Wrote(Respond(l, "PasswordReset"), {"users"}))
  /\ now' = now + 1
  /\ UNCHANGED <<nticks, nreq, nextId, otps, login_sessions, logout_sessions,
                 punched_in, punched_out, attendance, tokens>>

\* ======================= specifications ==================================
\* the first store operation of each handler
Begins(p) ==
  \/ signup_cleanup_otps_for_email(p)
  \/ verify_otp_get_latest(p)
  \/ login_authenticate(p)
  \/ forgot_password_get_user(p)
  \/ reset_password_get_user(p)
  \/ punch_in_get_user(p)
  \/ punch_out_get_user(p)
  \/ logout_get_user(p)

\* the later store operations
Steps(p) ==
  \/ signup_cleanup_unverified_users(p)
  \/ signup_find_existing(p)
  \/ signup_delete_old(p)
  \/ signup_insert_user(p)
  \/ signup_cleanup_expired_otps(p)
  \/ signup_insert_otp(p)
  \/ verify_otp_delete(p)
  \/ verify_otp_get_user(p)
  \/ verify_otp_save(p)
  \/ login_find_active(p)
  \/ login_deactivate(p)
  \/ login_create_logout(p)
  \/ login_create_session(p)
  \/ forgot_password_cleanup_expired_otps(p)
  \/ forgot_password_insert_otp(p)
  \/ reset_password_get_latest_logout(p)
  \/ reset_password_get_latest_login(p)
  \/ reset_password_get_latest_unused(p)
  \/ reset_password_delete(p)
  \/ reset_password_get_user_again(p)
  \/ reset_password_save(p)
  \/ punch_in_check_existing(p)
  \/ punch_in_check_session(p)
  \/ punch_in_check_today(p)
  \/ punch_in_insert_pointer(p)
  \/ punch_in_insert_attendance(p)
  \/ punch_out_check_session(p)
  \/ punch_out_check_pointer(p)
  \/ punch_out_find_pointer(p)
  \/ punch_out_insert_punched_out(p)
  \/ punch_out_delete_pointer(p)
  \/ punch_out_update_attendance(p)
  \/ logout_create_session(p)
  \/ logout_deactivate(p)

\* no request is in flight
Quiet == \A q \in Procs : proc[q].pc \in {"idle", "done"}

\* concurrent requests: handlers interleave between store operations
Next == \E p \in Procs : Begins(p) \/ Steps(p)

Spec == Init /\ [][Next]_vars

\* requests run to completion one after the other and time passes between
\* them
NextSeq ==
  \/ Quiet /\ Tick
  \/ \E p \in Procs : (Quiet /\ Begins(p)) \/ Steps(p)

SpecSeq == Init /\ [][NextSeq]_vars

\* ======================= properties ======================================
Done(p, op) == proc[p].pc = "done" /\ proc[p].op = op

\* the step accepts a request into slot p
AcceptedIn(p) == Free(p) /\ nreq' = nreq + 1

\* the user has logged in before, has a logout on record and no session of
\* theirs is active
LoggedOut(uid) ==
  /\ ActiveSessions(uid) = {}
  /\ \E s \in login_sessions : s.user_id = uid
  /\ \E s \in logout_sessions : s.user_id = uid

PurposeOf(op) == IF op = "verify_otp" THEN "signup" ELSE "forgot_password"

\* C1: in every reachable state, also while punch-in requests of one user
\* interleave, the user has at most one PunchPointer (so two concurrent
\* punch-ins cannot both have inserted one).
C1_AtMostOnePunchPointer ==
  \A u \in users : Cardinality(PointersOf(u.id)) <= 1

\* C2: for every user and calendar day there is at most one punch-in
\* AttendanceRecord: a punch-in after a punch-in and punch-out of the same day
\* appends nothing.
C2_OnePunchInPerDay ==
  \A a \in attendance : \A b \in attendance :
    (a.user_id = b.user_id /\ a.punched_in_date = b.punched_in_date) => a = b

\* C3: a reset-password answered for a user who has logged out after logging
\* in (login, forgot-password, logout, reset-password) is rejected with
\* SessionInvalidated and has written nothing: the password hash is unchanged
\* and the OTP is still stored.
C3_ResetAfterLogoutRejected ==
  \A p \in Procs :
    (Done(p, "reset_password") /\
       \E u \in UsersByEmail(proc[p].email) : LoggedOut(u.id))
    => (proc[p].res = "SessionInvalidated" /\ proc[p].w = {})

\* C3 witness: the rejected reset presented the code of the latest unused,
\* unexpired forgot_password OTP, which is still stored, and the password is
\* the one set at signup.
C3_Witness ==
  \E p \in Procs :
    /\ Done(p, "reset_password")
    /\ proc[p].res = "SessionInvalidated"
    /\ \E u \in UsersByEmail(proc[p].email) :
         LoggedOut(u.id) /\ u.password = make_password("pw1")
    /\ \E o \in LatestUnused(proc[p].email, "forgot_password") :
         o.otp = proc[p].code /\ get_ist_time(now) - o.created_at < OTP_TTL

\* C4: when reset-password looks up the latest unused forgot_password OTP, the
\* code matches and the OTP is 600 seconds old or older, the request is
\* answered OTPExpired and neither the OTP rows nor the user rows change.
C4_ResetRejectsExpiredOtp ==
  [][\A p \in Procs :
       (/\ proc[p].pc = "rp_otp"
        /\ proc'[p] # proc[p]
        /\ \E o \in LatestUnused(proc[p].email, "forgot_password") :
             /\ o.otp = proc[p].code
             /\ get_ist_time(now) - o.created_at >= OTP_TTL)
       => (proc'[p].res = "OTPExpired" /\ otps' = otps /\ users' = users)]_vars

\* C5: when verify-otp is called with the code of the latest unused signup
\* OTP, the OTP is accepted (the handler goes on to consume it) if it is less
\* than 600 seconds old, and otherwise the request is answered OTPExpired, the
\* OTP rows and the user rows unchanged.
C5_SignupOtpExpiry ==
  [][\A p \in Procs :
       (AcceptedIn(p) /\ proc'[p].op = "verify_otp")
       => \A o \in LatestUnused(proc'[p].email, "signup") :
            (o.otp = proc'[p].code)
            => IF get_ist_time(now) - o.created_at < OTP_TTL
               THEN proc'[p].pc = "vo_delete" /\ proc'[p].otp = {o}
               ELSE /\ proc'[p].pc = "done"
                    /\ proc'[p].res = "OTPExpired"
                    /\ proc'[p].w = {}
                    /\ otps' = otps
                    /\ users' = users]_vars

\* C5 witness: a verify-otp was answered OTPExpired for an OTP that was
\* exactly 600 seconds old when it was checked; the OTP is still stored and
\* the user is still unverified.
C5_Witness ==
  \E p \in Procs :
    /\ Done(p, "verify_otp")
    /\ proc[p].res = "OTPExpired"
    /\ \E o \in LatestUnused(proc[p].email, "signup") :
         /\ o.otp = proc[p].code
         /\ get_ist_time(now) - o.created_at = OTP_TTL + 1
    /\ \A u \in UsersByEmail(proc[p].email) : ~u.is_verified

C7_NotLoggedInFirst ==
  \A p \in Procs :
    (/\ Done(p, "punch_in")
     /\ proc[p].email \in tokens
     /\ \E u \in UsersByEmail(proc[p].email) : ActiveSessions(u.id) = {})
    => (proc[p].res = "NotLoggedIn" /\ proc[p].w = {})

\* C7 amended: a punch-in answered for a token holder who has no active
\* session writes nothing; it is rejected with AlreadyPunchedIn when the user
\* has a PunchPointer (that check comes first) and with NotLoggedIn when the
\* user has none.
C7_PunchInWithoutSession ==
  \A p \in Procs :
    (/\ Done(p, "punch_in")
     /\ proc[p].email \in tokens)
    => \A u \in UsersByEmail(proc[p].email) :
         (ActiveSessions(u.id) = {})
         => /\ proc[p].w = {}
            /\ proc[p].res = IF PointersOf(u.id) # {} THEN "AlreadyPunchedIn"
                             ELSE "NotLoggedIn"

\* C7 witness: punch-in, logout, punch-in: the second punch-in finds the
\* PunchPointer before it looks at the sessions.
C7_Witness ==
  \E p \in Procs :
    /\ Done(p, "punch_in")
    /\ proc[p].res = "AlreadyPunchedIn"
    /\ \E u \in UsersByEmail(proc[p].email) :
         ActiveSessions(u.id) = {} /\ PointersOf(u.id) # {}

\* C8: when a login has been answered with success and no other request has
\* started, the user has exactly one active LoginSession: the one this login
\* created, with this login's device type.
C8_OneActiveSessionAfterLogin ==
  \A p \in Procs :
    (Done(p, "login") /\ proc[p].res = "LoginOk")
    => \A u \in UsersByEmail(proc[p].email) :
         \E s \in login_sessions :
           /\ ActiveSessions(u.id) = {s}
           /\ s.device_type = proc[p].dev
           /\ \A r \in login_sessions : r.id <= s.id

\* C8 witness: after login from one device and login from another, the
\* earlier session is stored inactive next to the active one.
C8_Witness ==
  \E p \in Procs :
    /\ Done(p, "login")
    /\ proc[p].res = "LoginOk"
    /\ \E s \in login_sessions :
         ~s.is_active /\ s.device_type # proc[p].dev
    /\ \E s \in login_sessions : s.is_active /\ s.device_type = proc[p].dev

\* C9: once no request is in flight, also after two logins of one user have
\* interleaved, the user has at most one active LoginSession.
C9_OneActiveSessionWhenQuiet ==
  Quiet => \A u \in users : Cardinality(ActiveSessions(u.id)) <= 1

\* C10: each time login has deactivated a session it inserts exactly one
\* LogoutSession, and that row carries the user and the device type of the
\* session that was deactivated.
C10_SynthesizedLogoutDevice ==
  [][\A p \in Procs :
       (proc[p].pc = "li_logout_row" /\ proc'[p].pc # "li_logout_row")
       => /\ Cardinality(logout_sessions' \ logout_sessions) = 1
          /\ \A r \in logout_sessions' \ logout_sessions :
               \A s \in proc[p].rec :
                 r.user_id = s.user_id /\ r.device_type = s.device_type]_vars


\* C11: in every reachable state, also while createUser calls for one email
\* interleave, at most one User row is stored per email.
C11_OneUserPerEmail ==
  \A e \in Emails : Cardinality(UsersByEmail(e)) <= 1


\* C12: verification is monotonic: no step, under any interleaving of the
\* handlers, turns is_verified of a stored user from true to false.
C12_VerifiedStaysVerified ==
  [][\A u \in users : \A v \in users' :
       (u.id = v.id /\ u.is_verified) => v.is_verified]_vars


\* C13: a createUser call answered DuplicateVerifiedUser or
\* RecentUnverifiedSignupPending has written neither the user collection nor
\* the OTP collection, so the OTPs stored for the email before it are still
\* stored.
C13_FailedSignupWritesNothing ==
  \A p \in Procs :
    (/\ Done(p, "signup")
     /\ proc[p].res \in {"DuplicateVerifiedUser",
                         "RecentUnverifiedSignupPending"})
    => proc[p].w = {}


\* a createUser call is in flight in slot p
SigningUp(p) == proc[p].op = "signup" /\ proc[p].pc \notin {"idle", "done"}

\* the user row is unverified and at least ten minutes old on the IST clock
Stale(u) == ~u.is_verified /\ get_ist_time(now) - u.created_at >= OTP_TTL

\* C14: when createUser looks the email up and a verified user is stored, it
\* answers DuplicateVerifiedUser; when an unverified user created less than
\* 600 seconds before is stored, it answers RecentUnverifiedSignupPending;
\* and no step of createUser removes or replaces a row of the email that is
\* verified or younger than 600 seconds, or inserts a row while one is
\* stored.
C14_SignupRejectsDuplicates ==
  [][\A p \in Procs :
       SigningUp(p) =>
         /\ \A u \in UsersByEmail(proc[p].email) :
              /\ (proc[p].pc = "su_find" /\ u.is_verified)
                 => (proc'[p].pc = "done"
                     /\ proc'[p].res = "DuplicateVerifiedUser")
              /\ (proc[p].pc = "su_find" /\ ~u.is_verified /\ ~Stale(u))
                 => (proc'[p].pc = "done"
                     /\ proc'[p].res = "RecentUnverifiedSignupPending")
              /\ (u \notin users') => Stale(u)
              /\ (users' \ users # {}) => Stale(u)
         /\ (proc'[p].pc = "done" /\ proc'[p].res # "UserCreated")
            => "users" \notin proc'[p].w]_vars

\* C14 witness: a createUser call was answered RecentUnverifiedSignupPending
\* and the unverified user it found is still stored.
C14_Witness ==
  \E p \in Procs :
    /\ Done(p, "signup")
    /\ proc[p].res = "RecentUnverifiedSignupPending"
    /\ "users" \notin proc[p].w
    /\ \E u \in UsersByEmail(proc[p].email) : ~u.is_verified /\ ~Stale(u)


\* C15: a punch-out answered for a token holder who has an active session
\* and had no PunchPointer when it arrived (none is stored and the request
\* deleted none) is rejected with NoPunchInFound and has written nothing to
\* the pointer table, the attendance history or the punched-out records.
C15_PunchOutWithoutPunchIn ==
  \A p \in Procs :
    (/\ Done(p, "punch_out")
     /\ proc[p].email \in tokens
     /\ "punched_in" \notin proc[p].w)
    => \A u \in UsersByEmail(proc[p].email) :
         (ActiveSessions(u.id) # {} /\ PointersOf(u.id) = {})
         => (proc[p].res = "NoPunchInFound" /\ proc[p].w = {})

\* C15 witness: a logged-in user without a PunchPointer was answered
\* NoPunchInFound.
C15_Witness ==
  \E p \in Procs :
    /\ Done(p, "punch_out")
    /\ proc[p].res = "NoPunchInFound"
    /\ proc[p].w = {}
    /\ \E u \in UsersByEmail(proc[p].email) :
         ActiveSessions(u.id) # {} /\ PointersOf(u.id) = {}

\* C16: a punch-out answered for a token holder who has no active session is
\* rejected with NotLoggedIn, also when a PunchPointer exists, and has
\* written nothing.
C16_PunchOutWithoutSession ==
  \A p \in Procs :
    (/\ Done(p, "punch_out")
     /\ proc[p].email \in tokens)
    => \A u \in UsersByEmail(proc[p].email) :
         (ActiveSessions(u.id) = {})
         => (proc[p].res = "NotLoggedIn" /\ proc[p].w = {})

\* C16 witness: a punched-in user who logged out was answered NotLoggedIn
\* and the PunchPointer and its open attendance row are still stored.
C16_Witness ==
  \E p \in Procs :
    /\ Done(p, "punch_out")
    /\ proc[p].res = "NotLoggedIn"
    /\ proc[p].email \in tokens
    /\ \E u \in UsersByEmail(proc[p].email) :
         /\ ActiveSessions(u.id) = {}
         /\ PointersOf(u.id) # {}
         /\ OpenAttendance(u.id) # {}


\* the user's PunchPointers and open attendance rows are the same records
PointerMatchesRecord(uid) ==
  /\ \A r \in PointersOf(uid) : \E a \in OpenAttendance(uid) : a.id = r.id
  /\ \A a \in OpenAttendance(uid) : \E r \in PointersOf(uid) : r.id = a.id

\* the request in slot q is about to read the pointer table
ReadsPointer(q) ==
  proc[q].pc \in {"pi_existing", "pi_today", "po_pointer", "po_find"}

\* C17: the two writes of a punch-in are atomic to other requests: whenever
\* a punch-in or punch-out is about to read the pointer table, every user
\* whose PunchPointer is stored has the matching open AttendanceRecord, and
\* every open AttendanceRecord has its PunchPointer.
C17_PunchInWritesAtomic ==
  \A q \in Procs :
    ReadsPointer(q) => \A u \in users : PointerMatchesRecord(u.id)


\* C18: the step that answers a punch-out with success leaves the user
\* without PunchPointer and leaves the attendance record of the pointer it
\* consumed, the one the punch-in created, with its punch-in fields and with
\* the punch-out date and timestamp added; and no step of a punch-out adds a
\* row to the attendance history.
C18_PunchOutCompletesRecord ==
  [][\A p \in Procs :
       (proc[p].op = "punch_out" /\ proc[p].pc \notin {"idle", "done"})
       => /\ Cardinality(attendance') = Cardinality(attendance)
          /\ {a.id : a \in attendance'} = {a.id : a \in attendance}
          /\ (proc'[p].pc = "done" /\ proc'[p].res = "PunchedOut")
             => \A r \in proc[p].rec :
                  /\ \A x \in punched_in' : x.user_id # r.user_id
                  /\ \E a \in attendance' :
                       /\ a.id = r.id
                       /\ a.user_id = r.user_id
                       /\ a.punched_in_date = r.punched_in_date
                       /\ a.created_at = r.created_at
                       /\ a.out # {}
                       /\ \A o \in a.out :
                            o.punched_out_date = proc[p].date]_vars

\* C18 witness: a punch-out succeeded; the user has no PunchPointer and the
\* attendance row carries the punch-out.
C18_Witness ==
  \E p \in Procs :
    /\ Done(p, "punch_out")
    /\ proc[p].res = "PunchedOut"
    /\ \E u \in UsersByEmail(proc[p].email) :
         /\ PointersOf(u.id) = {}
         /\ \E a \in attendance : a.user_id = u.id /\ a.out # {}
         /\ OpenAttendance(u.id) = {}


\* C19: when each request runs to completion before the next starts, every
\* user has at most one PunchPointer in every reachable state.
C19_OnePointerWhenSerial ==
  \A a \in punched_in : \A b \in punched_in :
    (a.user_id = b.user_id) => a = b

\* C19 witness: after punch-in, punch-out and a further punch-in that was
\* accepted, the user has exactly one PunchPointer.
C19_Witness ==
  \E p \in Procs :
    /\ Done(p, "punch_in")
    /\ proc[p].res = "PunchedIn"
    /\ \E u \in UsersByEmail(proc[p].email) :
         /\ Cardinality(PointersOf(u.id)) = 1
         /\ \E r \in punched_out : r.user_id = u.id

\* a punch-in in slot p is answered by this step; the user it found has an
\* active session and a PunchPointer of the request's day that the request
\* did not insert itself
AnswersRepeatedPunchIn(p) ==
  /\ proc[p].op = "punch_in"
  /\ proc[p].pc \notin {"idle", "done"}
  /\ proc'[p].pc = "done"
  /\ "punched_in" \notin proc[p].w
  /\ \E u \in proc[p].user :
       /\ ActiveSessions(u.id) # {}
       /\ \E r \in PointersOf(u.id) : r.punched_in_date = proc[p].date

\* C20 as stated: a further punch-in on the same day by a logged-in user who
\* is still punched in is rejected with AlreadyPunchedInToday.
C20_RepeatedPunchInToday ==
  [][\A p \in Procs :
       AnswersRepeatedPunchIn(p)
       => proc'[p].res = "AlreadyPunchedInToday"]_vars

\* C20 amended: a further punch-in on the same day by a logged-in user who
\* is still punched in is rejected with AlreadyPunchedIn, the pointer check
\* coming first, and writes nothing.
C20_RepeatedPunchInRejected ==
  [][\A p \in Procs :
       AnswersRepeatedPunchIn(p)
       => /\ proc'[p].res = "AlreadyPunchedIn"
          /\ proc'[p].w = {}
          /\ stores' = stores]_vars

\* C20 witness: a logged-in user with a PunchPointer of today was answered
\* AlreadyPunchedIn.
C20_Witness ==
  \E p \in Procs :
    /\ Done(p, "punch_in")
    /\ proc[p].res = "AlreadyPunchedIn"
    /\ proc[p].w = {}
    /\ \E u \in UsersByEmail(proc[p].email) :
         /\ ActiveSessions(u.id) # {}
         /\ \E r \in PointersOf(u.id) : r.punched_in_date = DateOf(now)


\* the request in slot p is in flight
InFlight(p) == proc[p].pc \notin {"idle", "done"}

\* C21: a logout changes logout_sessions only by appending one row of the
\* user, once; when it answers, no LoginSession of the user is active; and
\* a punch-in or punch-out answered while the user has no active session is
\* rejected and writes nothing.
C21_LogoutDeactivatesAll ==
  [][\A p \in Procs : \A u \in proc[p].user :
       /\ (InFlight(p) /\ proc[p].op = "logout")
          => /\ (logout_sessions' # logout_sessions)
                => /\ "logout_sessions" \notin proc[p].w
                   /\ logout_sessions \subseteq logout_sessions'
                   /\ Cardinality(logout_sessions' \ logout_sessions) = 1
                   /\ \A r \in logout_sessions' \ logout_sessions :
                        r.user_id = u.id
             /\ (proc'[p].pc = "done")
                => /\ proc'[p].res = "LogoutOk"
                   /\ "logout_sessions" \in proc'[p].w
                   /\ \A r \in login_sessions' :
                        r.user_id = u.id => ~r.is_active
       /\ (/\ InFlight(p)
           /\ proc[p].op \in {"punch_in", "punch_out"}
           /\ proc'[p].pc = "done"
           /\ ActiveSessions(u.id) = {})
          => /\ proc'[p].res \in {"NotLoggedIn", "AlreadyPunchedIn"}
             /\ proc'[p].w = {}
             /\ stores' = stores]_vars

\* C21 witness: after a logout the user has a LogoutSession and no active
\* session, and a punch-in that followed was rejected.
C21_Witness ==
  \E p \in Procs :
    /\ Done(p, "punch_in")
    /\ proc[p].res = "NotLoggedIn"
    /\ proc[p].email \in tokens
    /\ \E u \in UsersByEmail(proc[p].email) : LoggedOut(u.id)


\* the user has no LogoutSession, or no LoginSession, or the latest
\* logout_time is not newer than the latest login_time
NoLogoutSinceLogin(uid) ==
  LET outs == {r \in logout_sessions : r.user_id = uid}
      ins == {r \in login_sessions : r.user_id = uid} IN
  \/ outs = {}
  \/ ins = {}
  \/ \A o \in outs : \E i \in ins : o.logout_time <= i.login_time

\* the forgot_password OTPs of the request's email that were stored when the
\* request in slot p arrived and were the most recently created
LatestAtArrival(p) ==
  LET C == {o \in otps \cup proc[p].otp :
              /\ o.email = proc[p].email
              /\ o.purpose = "forgot_password"
              /\ ~o.is_used} IN
  {o \in C : \A q \in C : q.created_at <= o.created_at}

\* C22: a reset-password answered for a user who has no LogoutSession, no
\* LoginSession or no logout newer than the latest login is not answered
\* SessionInvalidated; and when the code is that of the latest OTP and the
\* OTP is unexpired, the password is reset and the OTP is no longer stored.
C22_ResetProceedsWithoutLogout ==
  \A p \in Procs :
    Done(p, "reset_password")
    => \A u \in UsersByEmail(proc[p].email) :
         NoLogoutSinceLogin(u.id)
         => /\ proc[p].res # "SessionInvalidated"
            /\ (/\ LatestAtArrival(p) # {}
                /\ \A o \in LatestAtArrival(p) :
                     /\ o.otp = proc[p].code
                     /\ get_ist_time(now) - o.created_at < OTP_TTL)
               => /\ proc[p].res = "PasswordReset"
                  /\ LatestAtArrival(p) = proc[p].otp
                  /\ \A o \in proc[p].otp : o \notin otps
                  /\ check_password(proc[p].pw, u.password)

\* C22 witness: a user with a LoginSession and no LogoutSession has reset
\* the password, and the OTP is gone.
C22_Witness ==
  \E p \in Procs :
    /\ Done(p, "reset_password")
    /\ proc[p].res = "PasswordReset"
    /\ proc[p].otp # {}
    /\ \A o \in proc[p].otp : o \notin otps
    /\ \E u \in UsersByEmail(proc[p].email) :
         /\ \E r \in login_sessions : r.user_id = u.id
         /\ \A r \in logout_sessions : r.user_id # u.id
         /\ check_password(proc[p].pw, u.password)


\* C23: in every reachable state, under any interleaving, no stored OTP has
\* is_used = true, and an OTP that passed verification (the handler is past
\* its delete) is not stored.
C23_NoUsedOtpRetained ==
  /\ \A o \in otps : ~o.is_used
  /\ \A p \in Procs :
       (/\ proc[p].op \in {"verify_otp", "reset_password"}
        /\ proc[p].pc \in {"vo_user", "vo_save", "rp_user", "rp_save", "done"})
       => \A o \in proc[p].otp : \A r \in otps : r.id # o.id

\* C23 witness: verify-otp accepted an OTP and it is gone, while another
\* request was in flight.
C23_Witness ==
  \E p \in Procs :
    /\ Done(p, "verify_otp")
    /\ proc[p].res = "EmailVerified"
    /\ proc[p].otp # {}
    /\ \A o \in proc[p].otp : \A r \in otps : r.id # o.id
    /\ \E q \in Procs : InFlight(q)


\* C24: a verify-otp or reset-password that ends with a user-not-found error
\* has not changed the OTP collection: the OTP that was presented has not
\* been deleted by it.
C24_UserNotFoundKeepsOtp ==
  \A p \in Procs :
    (/\ (Done(p, "verify_otp") \/ Done(p, "reset_password"))
     /\ proc[p].res = "UserNotFound")
    => "otps" \notin proc[p].w


\* C25: after a successful verify-otp or reset-password for an email, a later
\* verification of the same kind for that email accepts no OTP that was
\* issued before the one the earlier success consumed.
C25_OlderOtpNotUsableLater ==
  \A p \in Procs :
    (/\ (Done(p, "verify_otp") \/ Done(p, "reset_password"))
     /\ proc[p].res \in {"EmailVerified", "PasswordReset"})
    => \A o \in proc[p].otp : \A q \in proc[p].prev :
         o.created_at > q.created_at


\* the request in slot p presented the code of an OTP of its email and
\* purpose while a newer unused OTP of the pair, with another code, was
\* stored (the OTPs stored when it arrived are those stored now and the one
\* it consumed)
PresentedOlderCode(p) ==
  LET C == {o \in otps \cup proc[p].otp :
              /\ o.email = proc[p].email
              /\ o.purpose = PurposeOf(proc[p].op)
              /\ ~o.is_used} IN
  /\ \E o \in C : o.otp = proc[p].code
  /\ \E n \in C : /\ n.otp # proc[p].code
                  /\ \A o \in C : o.created_at <= n.created_at

\* C26 as stated: presenting the code of an older OTP while a newer unused
\* OTP of the same email and purpose exists is rejected with InvalidOTP and
\* no OTP is consumed.
C26_OlderCodeInvalid ==
  \A p \in Procs :
    (/\ (Done(p, "verify_otp") \/ Done(p, "reset_password"))
     /\ PresentedOlderCode(p))
    => /\ proc[p].res = "InvalidOTP"
       /\ proc[p].otp = {}
       /\ "otps" \notin proc[p].w

\* C26 amended: such a request consumes no OTP and is rejected with
\* InvalidOTP, except that reset-password answers SessionInvalidated, before
\* it looks at any OTP, when the user's latest logout is newer than the
\* latest login.
C26_OlderCodeRejected ==
  \A p \in Procs :
    (/\ (Done(p, "verify_otp") \/ Done(p, "reset_password"))
     /\ PresentedOlderCode(p))
    => /\ proc[p].otp = {}
       /\ proc[p].w = {}
       /\ proc[p].res =
            IF /\ proc[p].op = "reset_password"
               /\ \E u \in UsersByEmail(proc[p].email) :
                    ~NoLogoutSinceLogin(u.id)
            THEN "SessionInvalidated" ELSE "InvalidOTP"

\* C26 witness: reset-password with the older code was answered InvalidOTP
\* and both OTPs are still stored.
C26_Witness ==
  \E p \in Procs :
    /\ Done(p, "reset_password")
    /\ PresentedOlderCode(p)
    /\ proc[p].res = "InvalidOTP"
    /\ Cardinality({o \in otps : o.email = proc[p].email}) = 2


\* C27: when a login and a logout of one user have both been answered with
\* success after running interleaved, the state is that of one of the two
\* serial orders: the user has exactly one active session, or has none and
\* the latest logout_time is newer than the latest login_time.
C27_LoginLogoutSerializable ==
  \A p \in Procs : \A q \in Procs :
    (/\ Done(p, "login") /\ proc[p].res = "LoginOk"
     /\ Done(q, "logout") /\ proc[q].res = "LogoutOk"
     /\ proc[p].email = proc[q].email)
    => \A u \in UsersByEmail(proc[p].email) :
         \/ Cardinality(ActiveSessions(u.id)) = 1
         \/ (ActiveSessions(u.id) = {} /\ ~NoLogoutSinceLogin(u.id))


\* C28: with requests running one after the other, between requests every
\* user who has a LoginSession has a latest logout_time newer than the
\* latest login_time exactly when the user has no active LoginSession.
C28_LogoutNotionsAgree ==
  Quiet => \A u \in users :
             (\E r \in login_sessions : r.user_id = u.id)
             => (~NoLogoutSinceLogin(u.id) <=> ActiveSessions(u.id) = {})

\* C28 witness: between requests, a user who logged out has no active
\* session and a logout newer than the latest login.
C28_Witness ==
  /\ Quiet
  /\ \E p \in Procs : Done(p, "logout") /\ proc[p].res = "LogoutOk"
  /\ \E u \in users : LoggedOut(u.id) /\ ~NoLogoutSinceLogin(u.id)


\* C29: with requests running one after the other, between requests a user
\* has a PunchPointer exactly when the user has exactly one AttendanceRecord
\* without punch-out fields, and a user without PunchPointer has none.
C29_PointerIffOpenRecord ==
  Quiet => \A u \in users :
             /\ (PointersOf(u.id) # {})
                <=> (Cardinality(OpenAttendance(u.id)) = 1)
             /\ (PointersOf(u.id) = {}) => (OpenAttendance(u.id) = {})

\* C29 witness: between requests, after an accepted punch-in, the user has a
\* PunchPointer and one open AttendanceRecord next to a completed one.
C29_Witness ==
  /\ Quiet
  /\ \E p \in Procs : Done(p, "punch_in") /\ proc[p].res = "PunchedIn"
  /\ \E u \in users :
       /\ PointersOf(u.id) # {}
       /\ Cardinality(OpenAttendance(u.id)) = 1
       /\ \E a \in attendance : a.user_id = u.id /\ a.out # {}


\* the user has punched in once: one attendance row, and no punch-in of the
\* user is between its two inserts
PunchedInOnce(u) ==
  /\ Cardinality({a \in attendance : a.user_id = u.id}) = 1
  /\ \A q \in Procs :
       ~(proc[q].pc = "pi_attendance" /\ proc[q].email = u.email)

\* slot p holds a punch-out of the user that was answered with success
PunchedOutOk(p, u) ==
  Done(p, "punch_out") /\ proc[p].email = u.email /\ proc[p].res = "PunchedOut"

\* C30: for a user who has punched in once, under any interleaving of
\* punch-out requests: at most one punch-out is answered with success, at
\* most one punched-out record is written, a success has written one, and
\* once a punch-out has succeeded and none is in flight the PunchPointer is
\* gone.
C30_ConcurrentPunchOut ==
  \A u \in users :
    PunchedInOnce(u)
    => /\ \A p \in Procs : \A q \in Procs :
            (PunchedOutOk(p, u) /\ PunchedOutOk(q, u)) => p = q
       /\ Cardinality({r \in punched_out : r.user_id = u.id}) <= 1
       /\ \A p \in Procs :
            PunchedOutOk(p, u)
            => /\ Cardinality({r \in punched_out : r.user_id = u.id}) = 1
               /\ (\A q \in Procs :
                     ~(InFlight(q) /\ proc[q].op = "punch_out"))
                  => PointersOf(u.id) = {}

\* C30 witness: two punch-outs of the user ran concurrently; one succeeded,
\* the other failed, one punched-out record is stored and the PunchPointer
\* is gone.
C30_Witness ==
  \E u \in users : \E p \in Procs : \E q \in Procs :
    /\ PunchedInOnce(u)
    /\ PunchedOutOk(p, u)
    /\ Done(q, "punch_out") /\ proc[q].email = u.email
    /\ proc[q].res = "ServerError"
    /\ Cardinality({r \in punched_out : r.user_id = u.id}) = 1
    /\ PointersOf(u.id) = {}


\* the step is the OTP lookup of the verification in slot p: the first step
\* of verify-otp, or the step of reset-password after its logout guard
LooksUpOtp(p) ==
  \/ AcceptedIn(p) /\ proc'[p].op = "verify_otp"
  \/ proc[p].op = "reset_password" /\ proc[p].pc = "rp_otp"

\* C31: in the OTP lookup of verify-otp and reset-password the code is
\* compared before expiry is tested: a code that differs from the latest
\* unused OTP's is answered InvalidOTP whether or not that OTP has expired,
\* OTPExpired is answered only when the code matches an expired OTP, and in
\* both cases the OTP collection is left as it was.
C31_CodeComparedBeforeExpiry ==
  [][\A p \in Procs :
       LooksUpOtp(p)
       => LET L == LatestUnused(proc'[p].email, PurposeOf(proc'[p].op)) IN
          /\ (L # {} /\ \A o \in L : o.otp # proc'[p].code)
             => /\ proc'[p].pc = "done"
                /\ proc'[p].res = "InvalidOTP"
                /\ otps' = otps
          /\ (proc'[p].pc = "done" /\ proc'[p].res = "OTPExpired")
             => /\ \E o \in L :
                     /\ o.otp = proc'[p].code
                     /\ get_ist_time(now) - o.created_at >= OTP_TTL
                /\ otps' = otps]_vars

\* C31 witness: verify-otp with a wrong code was answered InvalidOTP while
\* the latest signup OTP of the email, still stored, had expired.
C31_Witness ==
  \E p \in Procs :
    /\ Done(p, "verify_otp")
    /\ proc[p].res = "InvalidOTP"
    /\ LatestUnused(proc[p].email, "signup") # {}
    /\ \A o \in LatestUnused(proc[p].email, "signup") :
         /\ o.otp # proc[p].code
         /\ get_ist_time(now) - o.created_at > OTP_TTL


C33_FailedLoginWritesNothing ==
  \A p \in Procs :
    Done(p, "login")
    => /\ (UsersByEmail(proc[p].email) = {})
          => proc[p].res = "InvalidCredentials"
       /\ \A u \in UsersByEmail(proc[p].email) :
            /\ (u.password # make_password(proc[p].pw))
               => proc[p].res = "InvalidCredentials"
            /\ (u.password = make_password(proc[p].pw) /\ ~u.is_verified)
               => proc[p].res = "EmailNotVerified"
       /\ (proc[p].res \in {"InvalidCredentials", "EmailNotVerified"})
          => proc[p].w = {}

\* C33 witness: a login with a wrong password was answered
\* InvalidCredentials and the user's session is still active.
C33_Witness ==
  \E p \in Procs :
    /\ Done(p, "login")
    /\ proc[p].res = "InvalidCredentials"
    /\ proc[p].w = {}
    /\ \E u \in UsersByEmail(proc[p].email) :
         /\ u.password # make_password(proc[p].pw)
         /\ ActiveSessions(u.id) # {}


\* the step is taken by the request in slot p
StepOf(p) == proc'[p] # proc[p]

\* C34: no step of a login or a logout, under any interleaving, creates,
\* changes or deletes a PunchPointer, an AttendanceRecord or a punched-out
\* record.
C34_SessionsLeavePunchState ==
  [][\A p \in Procs :
       (StepOf(p) /\ proc'[p].op \in {"login", "logout"})
       => /\ punched_in' = punched_in
          /\ attendance' = attendance
          /\ punched_out' = punched_out]_vars

\* C34 witness: a punched-in user has logged out and logged in again and
\* still has the PunchPointer and the open AttendanceRecord.
C34_Witness ==
  \E p \in Procs :
    /\ Done(p, "login")
    /\ proc[p].res = "LoginOk"
    /\ \E u \in UsersByEmail(proc[p].email) :
         /\ \E r \in logout_sessions : r.user_id = u.id
         /\ PointersOf(u.id) # {}
         /\ PointerMatchesRecord(u.id)


\* C35: with requests running one after the other, the steps of a
\* reset-password leave every LoginSession, LogoutSession, PunchPointer,
\* punched-out record and AttendanceRecord as they are, remove from the OTP
\* collection nothing but the OTP the request accepted, and change of the
\* user rows nothing but password and updated_at; the step that answers with
\* success leaves the new password hash stored.
C35_ResetChangesPasswordOnly ==
  [][\A p \in Procs :
       (StepOf(p) /\ proc'[p].op = "reset_password")
       => /\ login_sessions' = login_sessions
          /\ logout_sessions' = logout_sessions
          /\ punched_in' = punched_in
          /\ punched_out' = punched_out
          /\ attendance' = attendance
          /\ otps' \subseteq otps
          /\ otps \ otps' \subseteq proc'[p].otp
          /\ Cardinality(users') = Cardinality(users)
          /\ \A u \in users : \E v \in users' :
               v = [u EXCEPT !.password = v.password,
                             !.updated_at = v.updated_at]
          /\ (proc'[p].pc = "done" /\ proc'[p].res = "PasswordReset")
             => /\ proc'[p].otp # {}
                /\ \A o \in proc'[p].otp : o \notin otps'
                /\ \A u \in proc[p].user : \E v \in users' :
                     /\ v.id = u.id
                     /\ check_password(proc[p].pw, v.password)]_vars

\* C35 witness: a reset-password succeeded and the session that was active
\* before it is still active.
C35_Witness ==
  \E p \in Procs :
    /\ Done(p, "reset_password")
    /\ proc[p].res = "PasswordReset"
    /\ "users" \in proc[p].w
    /\ \E u \in UsersByEmail(proc[p].email) :
         /\ check_password(proc[p].pw, u.password)
         /\ ActiveSessions(u.id) # {}


\* the request in slot p is about to store the OTP it issues
Issuing(p) == proc[p].pc \in {"su_otp", "fp_otp"}

C37_OtpPurposeScoped ==
  \A p \in Procs :
    proc[p].op \in {"verify_otp", "reset_password"}
    => /\ \A o \in proc[p].otp :
            /\ o.purpose = PurposeOf(proc[p].op)
            /\ o.email = proc[p].email
            /\ o.otp = proc[p].code
       /\ proc[p].res \in {"EmailVerified", "PasswordReset"}
          => proc[p].otp # {}

\* C37 witness: a reset-password presented the code of a stored signup OTP of
\* its email, no forgot_password OTP carried that code, and it was answered
\* InvalidOTP with the signup OTP left in place.
C37_Witness ==
  \E p \in Procs :
    /\ Done(p, "reset_password")
    /\ proc[p].res = "InvalidOTP"
    /\ proc[p].w = {}
    /\ \E o \in otps : /\ o.email = proc[p].email
                       /\ o.purpose = "signup"
                       /\ o.otp = proc[p].code
    /\ \E o \in otps : /\ o.email = proc[p].email
                       /\ o.purpose = "forgot_password"
    /\ \A o \in otps : o.purpose = "forgot_password" => o.otp # proc[p].code


\* C38: under any interleaving, every step keeps every LoginSession row, with
\* the user, device and login time it had, and a row that is inactive stays
\* inactive.
C38_LoginHistoryKept ==
  [][\A r \in login_sessions :
       \E n \in login_sessions' :
         /\ n = [r EXCEPT !.is_active = n.is_active]
         /\ ~r.is_active => ~n.is_active]_vars

\* C38 witness: a user has logged in again after an earlier session of theirs
\* was deactivated: the old row is stored, inactive, next to the active one.
C38_Witness ==
  \E p \in Procs :
    /\ Done(p, "login")
    /\ proc[p].res = "LoginOk"
    /\ \E r, n \in login_sessions :
         /\ r.user_id = n.user_id
         /\ ~r.is_active
         /\ n.is_active
         /\ r.login_time < n.login_time


\* the time that has passed since the earliest punch-in of the model (P0)
SinceFirstPunchIn == now - P0.created_at

\* C39: in every punched-out record and every AttendanceRecord that has been
\* completed, punched_out_at minus created_at is the time that passed
\* between the punch-in and the punch-out: it is not negative and not more
\* than the time that has passed since the earliest punch-in.
C39_DifferenceIsElapsedTime ==
  \A r \in punched_out \cup attendance :
    \A o \in r.out :
      /\ 0 <= o.punched_out_at - r.created_at
      /\ o.punched_out_at - r.created_at <= SinceFirstPunchIn


\* C40: every row that the last step of a punch-in appends to attendance
\* carries action_type = punch_in.
C40_PunchInActionType ==
  [][\A p \in Procs :
       (StepOf(p) /\ proc[p].pc = "pi_attendance")
       => \A r \in attendance' \ attendance :
            action_type(r) = "punch_in"]_vars

====
